---- MODULE Spec2Model ----
(***************************************************************************)
(* Model of src/main.py: per-name configuration resolution (AzureConfig),  *)
(* the runner (main) with the four operations it can call against the      *)
(* selected configuration, and get_conversation_history.                   *)
(***************************************************************************)
EXTENDS Integers, Sequences, FiniteSets, TLC

VARIABLES
    env,              \* process environment: name -> variable prefix -> value
    batch,            \* CONFIGS_TO_TEST
    selected,         \* SELECTED_CONFIG
    i,                \* position of the for loop over CONFIGS_TO_TEST
    configs,          \* the dict configs: name -> AzureConfig
    errors,           \* the "x name: error" lines printed by the loop, in order
    pc,               \* where main is
    client,           \* project_client: "none", "open" or "closed"
    selectionFailed,  \* the "is not available" line was printed
    opsDone,          \* operations called so far
    lastOp,           \* what the last operation did
    remoteCalls,      \* remote calls issued so far
    thread,           \* the messages of the remote thread, as the service lists them
    messages          \* the list get_conversation_history returned

vars == <<env, batch, selected, i, configs, errors, pc, client, selectionFailed,
          opsDone, lastOp, remoteCalls, thread, messages>>

-----------------------------------------------------------------------------
(* Bounds *)

\* operations one run may call
MaxOps == 3
\* messages in a thread
MaxThread == 3
\* text segments in one message
MaxText == 2

-----------------------------------------------------------------------------
(* Values *)

\* Python's None
None == "<None>"
\* a variable that is not in the environment
Unset == "<unset>"

Names == {"TEST", "DEV"}

DefaultApiVersion == "2024-12-01-preview"

Required == {"PROJECT_ENDPOINT", "CHAT_MODEL"}

EnvOf(EP, CM, AG, CN, AV) ==
    [Names -> [PROJECT_ENDPOINT : EP, CHAT_MODEL : CM, AGENT_ID : AG,
               CONNECTION_NAME : CN, API_VERSION : AV]]

\* every environment: each variable unset, empty or set
Environments ==
    EnvOf({Unset, "", "https://x"}, {Unset, "", "gpt-4"}, {Unset, "", "agent-1"},
          {Unset, "", "conn-1"}, {Unset, "", "2025-01-01"})

\* the environments of a run
RunEnvironments ==
    EnvOf({Unset, "", "https://x"}, {Unset, "", "gpt-4"}, {Unset, "agent-1"},
          {Unset, "", "conn-1"}, {Unset})

\* lists of pairwise distinct names
Batches ==
    {<<>>} \cup {<<n>> : n \in Names}
           \cup {b \in Names \X Names : b[1] # b[2]}

-----------------------------------------------------------------------------
(* AzureConfig *)

\* os.getenv(key, default)
getenv(e, key, default) == IF e[key] = Unset THEN default ELSE e[key]

IsNone(v) == v = None

\* Python's "not v" on a str or None
Falsy(v) == v = None \/ v = ""

ReadConfig(config_name, e) ==
    [config_name      |-> config_name,
     project_endpoint |-> getenv(e, "PROJECT_ENDPOINT", None),
     chat_model       |-> getenv(e, "CHAT_MODEL", None),
     agent_model      |-> getenv(e, "AGENT_ID", None),
     connection_name  |-> getenv(e, "CONNECTION_NAME", None),
     api_version      |-> getenv(e, "API_VERSION", DefaultApiVersion)]

NotFound(prefix, config_name) == [prefix |-> prefix, name |-> config_name]

AzureConfig_NoChatCheck(config_name, e) ==
    LET self == ReadConfig(config_name, e) IN
    IF Falsy(self.project_endpoint)
    THEN [raised |-> TRUE, error |-> NotFound("PROJECT_ENDPOINT", config_name)]
    ELSE [raised |-> FALSE, config |-> self]

AzureConfig_NoApiDefault(config_name, e) ==
    LET self == [ReadConfig(config_name, e) EXCEPT
                     !.api_version = getenv(e, "API_VERSION", None)] IN
    IF Falsy(self.project_endpoint)
    THEN [raised |-> TRUE, error |-> NotFound("PROJECT_ENDPOINT", config_name)]
    ELSE IF Falsy(self.chat_model)
    THEN [raised |-> TRUE, error |-> NotFound("CHAT_MODEL", config_name)]
    ELSE [raised |-> FALSE, config |-> self]

\* AzureConfig(config_name): the object, or the ValueError it raises
AzureConfig(config_name, e) ==
    LET self == ReadConfig(config_name, e) IN
    IF Falsy(self.project_endpoint)
    THEN [raised |-> TRUE, error |-> NotFound("PROJECT_ENDPOINT", config_name)]
    ELSE IF Falsy(self.chat_model)
    THEN [raised |-> TRUE, error |-> NotFound("CHAT_MODEL", config_name)]
    ELSE [raised |-> FALSE, config |-> self]

-----------------------------------------------------------------------------
(* get_conversation_history *)

Roles == {"user", "assistant"}

\* the text segments of a message, each value told apart by its position
Texts == {[j \in 1..k |-> j] : k \in 0..MaxText}

\* the k-th smallest element of a set of numbers
Nth(S, k) == CHOOSE x \in S : Cardinality({y \in S : y <= x}) = k

\* threads as messages.list(order=ASCENDING) delivers them: created_at rising
Threads ==
    UNION {{[k \in 1..Cardinality(T) |->
                [role          |-> body[k].role,
                 text_messages |-> body[k].text_messages,
                 created_at    |-> Nth(T, k)]] :
               body \in [1..Cardinality(T) -> [role : Roles, text_messages : Texts]]}
           : T \in SUBSET (1..MaxThread)}

Entry(message) ==
    [role      |-> message.role,
     content   |-> message.text_messages[Len(message.text_messages)],
     timestamp |-> message.created_at]

RECURSIVE HistoryLoop(_, _, _)
HistoryLoop(listed, k, acc) ==
    IF k > Len(listed) THEN acc
    ELSE HistoryLoop(listed, k + 1,
                     IF listed[k].text_messages # <<>>
                     THEN Append(acc, Entry(listed[k]))
                     ELSE acc)

get_conversation_history_first(listed) ==
    LET RECURSIVE Loop(_, _)
        Loop(k, acc) ==
            IF k > Len(listed) THEN acc
            ELSE Loop(k + 1,
                      IF listed[k].text_messages # <<>>
                      THEN Append(acc, [Entry(listed[k]) EXCEPT
                                            !.content = listed[k].text_messages[1]])
                      ELSE acc)
    IN Loop(1, <<>>)

get_conversation_history(listed) == HistoryLoop(listed, 1, <<>>)

-----------------------------------------------------------------------------
(* main: the loop over CONFIGS_TO_TEST *)

NoOp == [op |-> "none", outcome |-> "none", failAt |-> 0, calls |-> 0,
         before |-> "none", reported |-> None]

InitCommon ==
    /\ i = 1
    /\ configs = <<>>
    /\ errors = <<>>
    /\ client = "none"
    /\ selectionFailed = FALSE
    /\ opsDone = 0
    /\ lastOp = NoOp
    /\ remoteCalls = 0
    /\ messages = <<>>

\* a put into the dict configs
Put(d, k, v) == [x \in DOMAIN d \cup {k} |-> IF x = k THEN v ELSE d[x]]

ResolveNext_Abort ==
    /\ pc = "resolve"
    /\ i <= Len(batch)
    /\ LET config_name == batch[i]
           r == AzureConfig(config_name, env[config_name])
       IN IF r.raised
          THEN /\ errors' = Append(errors, r.error)
               /\ pc' = "raised"
               /\ UNCHANGED <<configs, i>>
          ELSE /\ configs' = Put(configs, config_name, r.config)
               /\ i' = i + 1
               /\ pc' = IF i = Len(batch) THEN "select" ELSE "resolve"
               /\ UNCHANGED errors
    /\ UNCHANGED <<env, batch, selected, client, selectionFailed, opsDone, lastOp,
                   remoteCalls, thread, messages>>

\* one turn of the for loop: try AzureConfig(config_name), except ValueError
ResolveNext ==
    /\ pc = "resolve"
    /\ i <= Len(batch)
    /\ LET config_name == batch[i]
           r == AzureConfig(config_name, env[config_name])
       IN IF r.raised
          THEN /\ errors' = Append(errors, r.error)
               /\ UNCHANGED configs
          ELSE /\ configs' = Put(configs, config_name, r.config)
               /\ UNCHANGED errors
    /\ i' = i + 1
    /\ pc' = IF i = Len(batch) THEN "select" ELSE "resolve"
    /\ UNCHANGED <<env, batch, selected, client, selectionFailed, opsDone, lastOp,
                   remoteCalls, thread, messages>>

InitResolve ==
    /\ InitCommon
    /\ env \in Environments
    /\ batch \in Batches
    /\ selected = "TEST"
    /\ thread = <<>>
    /\ pc = IF batch = <<>> THEN "select" ELSE "resolve"

SpecResolve == InitResolve /\ [][ResolveNext]_vars

-----------------------------------------------------------------------------
(* main: the selected configuration and the operations on it *)

Rest == <<env, batch, selected, i, configs, errors, selectionFailed, thread>>

SelectConfig_Always ==
    /\ pc = "select"
    /\ client' = "open"
    /\ pc' = IF selected \in DOMAIN configs THEN "ops" ELSE "done"
    /\ selectionFailed' = (selected \notin DOMAIN configs)
    /\ UNCHANGED <<env, batch, selected, i, configs, errors, opsDone, lastOp,
                   remoteCalls, thread, messages>>

\* if SELECTED_CONFIG in configs: AIProjectClient(...) else: print "not available"
SelectConfig ==
    /\ pc = "select"
    /\ IF selected \in DOMAIN configs
       THEN /\ client' = "open"
            /\ pc' = "ops"
            /\ UNCHANGED selectionFailed
       ELSE /\ selectionFailed' = TRUE
            /\ pc' = "done"
            /\ UNCHANGED client
    /\ UNCHANGED <<env, batch, selected, i, configs, errors, opsDone, lastOp,
                   remoteCalls, thread, messages>>

\* a call of one of the operations is next in main
CanCall == pc = "ops" /\ opsDone < MaxOps

Did(op, outcome, failAt, calls) ==
    [op |-> op, outcome |-> outcome, failAt |-> failAt, calls |-> calls,
     before |-> client,
     reported |-> IF outcome = "caught" THEN configs[selected].config_name ELSE None]

\* test_chat_completion: get_openai_client, chat.completions.create, in a try
TestChatCompletion ==
    /\ CanCall
    /\ \E failAt \in 0..2 :
         lastOp' = Did("test_chat_completion",
                       IF failAt = 0 THEN "ok" ELSE "caught", failAt,
                       IF failAt = 0 THEN 2 ELSE failAt)
    /\ remoteCalls' = remoteCalls + lastOp'.calls
    /\ opsDone' = opsDone + 1
    /\ UNCHANGED <<Rest, pc, client, messages>>

UploadDataset_NoSkip ==
    /\ CanCall
    /\ \E failAt \in 0..1 :
         lastOp' = Did("upload_dataset", IF failAt = 0 THEN "ok" ELSE "caught",
                       failAt, 1)
    /\ remoteCalls' = remoteCalls + lastOp'.calls
    /\ opsDone' = opsDone + 1
    /\ UNCHANGED <<Rest, pc, client, messages>>

\* upload_dataset: skipped without a connection name, else upload_file in a try
UploadDataset ==
    /\ CanCall
    /\ IF Falsy(configs[selected].connection_name)
       THEN lastOp' = Did("upload_dataset", "skipped", 0, 0)
       ELSE \E failAt \in 0..1 :
                lastOp' = Did("upload_dataset",
                              IF failAt = 0 THEN "ok" ELSE "caught", failAt, 1)
    /\ remoteCalls' = remoteCalls + lastOp'.calls
    /\ opsDone' = opsDone + 1
    /\ UNCHANGED <<Rest, pc, client, messages>>

\* agent_chat_completion: get_agent, threads.create, messages.create,
\* runs.create_and_process, messages.list unless the run failed, project.close();
\* no try: the exception of a failing call leaves the function and main
AgentChatCompletion ==
    /\ CanCall
    /\ \E status \in {"completed", "failed"} :
       \E failAt \in 0..(IF status = "failed" THEN 4 ELSE 5) :
         IF failAt = 0
         THEN /\ lastOp' = Did("agent_chat_completion",
                               IF status = "failed" THEN "run_failed" ELSE "ok", 0,
                               IF status = "failed" THEN 4 ELSE 5)
              /\ client' = "closed"
              /\ pc' = pc
         ELSE /\ lastOp' = Did("agent_chat_completion", "raised", failAt, failAt)
              /\ client' = client
              /\ pc' = "raised"
    /\ remoteCalls' = remoteCalls + lastOp'.calls
    /\ opsDone' = opsDone + 1
    /\ UNCHANGED <<Rest, messages>>

\* print(await get_conversation_history(project_client, thread_id)): no try
ConversationHistory ==
    /\ CanCall
    /\ \E failAt \in 0..1 :
         IF failAt = 0
         THEN /\ lastOp' = Did("get_conversation_history", "ok", 0, 1)
              /\ messages' = get_conversation_history(thread)
              /\ pc' = pc
         ELSE /\ lastOp' = Did("get_conversation_history", "raised", 1, 1)
              /\ messages' = messages
              /\ pc' = "raised"
    /\ remoteCalls' = remoteCalls + lastOp'.calls
    /\ opsDone' = opsDone + 1
    /\ UNCHANGED <<Rest, client>>

\* main returns
Finish ==
    /\ pc = "ops"
    /\ pc' = "done"
    /\ UNCHANGED <<Rest, client, opsDone, lastOp, remoteCalls, messages>>

\* the thread of the run: an assistant and a user message, the first with two
\* text segments
RunThread ==
    <<[role |-> "assistant", text_messages |-> <<1, 2>>, created_at |-> 1],
      [role |-> "user", text_messages |-> <<1>>, created_at |-> 2]>>

Init ==
    /\ InitCommon
    /\ env \in RunEnvironments
    /\ batch \in Batches
    /\ selected \in Names
    /\ thread = RunThread
    /\ pc = IF batch = <<>> THEN "select" ELSE "resolve"

Next ==
    \/ ResolveNext
    \/ SelectConfig
    \/ TestChatCompletion
    \/ AgentChatCompletion
    \/ UploadDataset
    \/ ConversationHistory
    \/ Finish

Spec == Init /\ [][Next]_vars

-----------------------------------------------------------------------------
(* get_conversation_history called on its own *)

InitHistory ==
    /\ InitCommon
    /\ env \in EnvOf({"https://x"}, {"gpt-4"}, {Unset}, {Unset}, {Unset})
    /\ batch = <<>>
    /\ selected = "TEST"
    /\ thread \in Threads
    /\ pc = "history"

\* await get_conversation_history(project_client, thread_id)
HistoryCall ==
    /\ pc = "history"
    /\ \E failAt \in 0..1 :
         IF failAt = 0
         THEN /\ messages' = get_conversation_history(thread)
              /\ pc' = "returned"
         ELSE /\ messages' = messages
              /\ pc' = "raised"
    /\ remoteCalls' = remoteCalls + 1
    /\ UNCHANGED <<Rest, client, opsDone, lastOp>>

SpecHistory == InitHistory /\ [][HistoryCall]_vars

-----------------------------------------------------------------------------
(* Properties of the resolution loop, under SpecResolve *)

\* names the loop has been through
Processed == {batch[k] : k \in 1..(i - 1)}

\* the required variable <prefix>_<n> is unset or empty
Missing(n, prefix) == env[n][prefix] \in {Unset, ""}

Resolvable(n) == \A prefix \in Required : ~Missing(n, prefix)

FailedAt == {k \in 1..(i - 1) : ~Resolvable(batch[k])}

\* the value an optional variable gives a field
Sourced(v, default) == IF v = Unset THEN default ELSE v

(* C4: after any part of a batch of N distinct names of which M fail, exactly
   one error per failing name has been printed, in batch order, and exactly
   the other names are in configs, each under its own name and with the
   Configuration it gets when resolved alone; the loop always reaches the end
   of the batch. *)
C4_BatchIsolation ==
    /\ pc \in {"resolve", "select"}
    /\ pc = "select" <=> i = Len(batch) + 1
    /\ Len(errors) = Cardinality(FailedAt)
    /\ \A j \in 1..Len(errors) :
           \E k \in FailedAt : /\ errors[j].name = batch[k]
                               /\ Cardinality({m \in FailedAt : m <= k}) = j
    /\ Cardinality(DOMAIN configs) = (i - 1) - Cardinality(FailedAt)
    /\ DOMAIN configs = {n \in Processed : Resolvable(n)}
    /\ \A n \in DOMAIN configs :
           /\ configs[n].config_name = n
           /\ configs[n].project_endpoint = env[n].PROJECT_ENDPOINT
           /\ configs[n].chat_model = env[n].CHAT_MODEL

C4_Witness ==
    /\ pc = "select"
    /\ Len(batch) = 2
    /\ ~Resolvable(batch[1])
    /\ Resolvable(batch[2])
    /\ Len(errors) = 1
    /\ errors[1].name = batch[1]
    /\ DOMAIN configs = {batch[2]}

(* C6: a processed name with a required variable missing (unset or empty) is
   not in configs, and one error was printed for it, naming a required
   variable of that name that is missing: PROJECT_ENDPOINT when it is missing,
   else CHAT_MODEL. *)
C6_MissingRequiredFails ==
    \A n \in Processed :
        ~Resolvable(n) =>
            /\ n \notin DOMAIN configs
            /\ \E j \in 1..Len(errors) :
                   /\ errors[j].name = n
                   /\ errors[j].prefix \in Required
                   /\ Missing(n, errors[j].prefix)
                   /\ errors[j].prefix =
                          IF Missing(n, "PROJECT_ENDPOINT")
                          THEN "PROJECT_ENDPOINT" ELSE "CHAT_MODEL"
                   /\ \A m \in 1..Len(errors) : errors[m].name = n => m = j

C6_Witness ==
    /\ pc = "select"
    /\ \E n \in Processed :
           /\ ~Missing(n, "PROJECT_ENDPOINT")
           /\ env[n].CHAT_MODEL = Unset
           /\ n \notin DOMAIN configs
           /\ \E j \in 1..Len(errors) :
                  errors[j] = [prefix |-> "CHAT_MODEL", name |-> n]

(* C9: a processed name with both required variables set (to a non-empty
   value) is in configs with every field equal to its variable, an unset
   optional variable giving None and an unset API_VERSION giving
   "2024-12-01-preview". *)
C9_FieldsMatchEnvironment ==
    \A n \in Processed :
        Resolvable(n) =>
            /\ n \in DOMAIN configs
            /\ configs[n] =
                   [config_name      |-> n,
                    project_endpoint |-> env[n].PROJECT_ENDPOINT,
                    chat_model       |-> env[n].CHAT_MODEL,
                    agent_model      |-> Sourced(env[n].AGENT_ID, None),
                    connection_name  |-> Sourced(env[n].CONNECTION_NAME, None),
                    api_version      |-> Sourced(env[n].API_VERSION,
                                                 "2024-12-01-preview")]

C9_Witness ==
    /\ pc = "select"
    /\ \E n \in DOMAIN configs, m \in DOMAIN configs :
           /\ env[n].API_VERSION = Unset
           /\ configs[n].api_version = "2024-12-01-preview"
           /\ env[n].AGENT_ID = Unset
           /\ configs[n].agent_model = None
           /\ env[m].API_VERSION = "2025-01-01"
           /\ configs[m].api_version = "2025-01-01"
           /\ configs[m].connection_name = "conn-1"

-----------------------------------------------------------------------------
(* Properties of get_conversation_history, under SpecHistory *)

\* the messages of the thread that have a text segment
WithText == {k \in 1..Len(thread) : Len(thread[k].text_messages) >= 1}

(* C7: the returned list is the subsequence of the thread's messages that have
   a text segment, oldest first, each entry with the message's role, its last
   text segment and its creation time; messages without a text segment are
   left out. *)
C7_HistoryIsTextSubsequence ==
    pc = "returned" =>
        /\ Len(messages) = Cardinality(WithText)
        /\ \A k \in WithText :
               LET j == Cardinality({m \in WithText : m <= k}) IN
               /\ messages[j].role = thread[k].role
               /\ messages[j].content =
                      thread[k].text_messages[Len(thread[k].text_messages)]
               /\ messages[j].timestamp = thread[k].created_at
        /\ \A j \in 1..(Len(messages) - 1) :
               messages[j].timestamp < messages[j + 1].timestamp

C7_Witness ==
    /\ pc = "returned"
    /\ Len(thread) = 3
    /\ thread[2].text_messages = <<>>
    /\ thread[1].text_messages = <<1, 2>>
    /\ Len(messages) = 2
    /\ messages[1].content = 2
    /\ messages[2].timestamp = thread[3].created_at

-----------------------------------------------------------------------------
(* Properties of a run, under Spec *)

(* C5: while the selected name is not in configs no client is constructed, no
   operation is called and no remote call is issued, and the run ends with the
   selection failure reported; a client exists only when the selected name is
   in configs. *)
C5_NoSelectionNoClient ==
    /\ selected \notin DOMAIN configs =>
           /\ client = "none"
           /\ remoteCalls = 0
           /\ opsDone = 0
           /\ lastOp = NoOp
           /\ pc \in {"resolve", "select", "done"}
           /\ pc = "done" => selectionFailed
    /\ client # "none" => selected \in DOMAIN configs
    /\ selectionFailed => selected \notin DOMAIN configs /\ pc = "done"

C5_Witness ==
    /\ pc = "done"
    /\ selectionFailed
    /\ selected \in Processed
    /\ DOMAIN configs # {}
    /\ client = "none"

(* C8: upload_dataset on a configuration without a connection name ends
   "skipped" with no remote call; it issues a remote call only with a
   connection name. *)
C8_UploadSkipsWithoutConnection ==
    lastOp.op = "upload_dataset" =>
        /\ env[selected].CONNECTION_NAME \in {Unset, ""} =>
               /\ lastOp.outcome = "skipped"
               /\ lastOp.failAt = 0
               /\ lastOp.calls = 0
        /\ lastOp.calls > 0 => env[selected].CONNECTION_NAME \notin {Unset, ""}
        /\ opsDone = 1 => remoteCalls = lastOp.calls

C8_Witness ==
    /\ lastOp.op = "upload_dataset"
    /\ lastOp.outcome = "skipped"
    /\ env[selected].CONNECTION_NAME = Unset
    /\ opsDone = 1
    /\ remoteCalls = 0
    /\ pc = "done"

C10_RequiredNonEmpty ==
    \A n \in DOMAIN configs :
        /\ configs[n].project_endpoint \notin {None, Unset, ""}
        /\ configs[n].chat_model \notin {None, Unset, ""}

C10_Kept ==
    \A n \in DOMAIN configs : n \in DOMAIN configs' /\ configs'[n] = configs[n]

(* C10: every Configuration in configs has a non-empty endpoint and a
   non-empty chat model, and no step changes or removes a Configuration that
   is in configs. *)
C10_ConfigsValidAndFrozen == []C10_RequiredNonEmpty /\ [][C10_Kept]_vars

C10_Witness ==
    /\ pc = "done"
    /\ opsDone >= 2
    /\ client = "closed"
    /\ DOMAIN configs = {selected}
    /\ \E n \in Processed : env[n].PROJECT_ENDPOINT = "" /\ n \notin DOMAIN configs

(* C1: an operation in which a remote call fails catches the error, reports it
   with the configuration name, and the run goes on: no failure leaves the
   operation or main. *)
C1_FailuresCaughtLocally ==
    /\ lastOp.failAt # 0 => lastOp.outcome = "caught" /\ lastOp.reported = selected
    /\ pc # "raised"

(* C2: the client is constructed before any operation uses it, and a run that
   constructed a client does not end with it still open. *)
C2_HandleReleased ==
    /\ opsDone > 0 => lastOp.before # "none"
    /\ pc \in {"done", "raised"} /\ client # "none" => client = "closed"

(* C3: an operation that completes successfully on an open client leaves the
   client open for the next operation. *)
C3_SuccessLeavesHandleOpen ==
    lastOp.outcome = "ok" /\ lastOp.before = "open" => client = "open"

====
